---- MODULE Spec2Model ----
(***************************************************************************)
(* Token-based authentication and authorization of lib/jwt:               *)
(* generateToken / generateTokenSecure / generateRefreshToken,             *)
(* verifyToken / verifyTokenSecure, authMiddleware and requireRole.        *)
(*                                                                         *)
(* Strings are TLA+ strings.  A token is the string                        *)
(*     <header segment> "." <payload segment> "." <signature segment>      *)
(* where the header segment carries the algorithm name, the payload        *)
(* segment the claims as comma-separated fields, and the signature         *)
(* segment an ideal MAC (an injective function of algorithm, key and       *)
(* signing input).                                                         *)
(***************************************************************************)
EXTENDS Integers, Sequences, FiniteSets, TLC

VARIABLES
    env,     \* process.env: JWT_SECRET ("" when unset) and NODE_ENV
    loaded,  \* whether evaluating the module lib/jwt succeeded
    now,     \* the clock, in seconds
    ticks,   \* number of clock advances so far
    tok,     \* the token string the client holds
    issued,  \* how the client came to hold tok
    last,    \* the direct call of lib/jwt in progress, with its result
    req,     \* the request in progress at authMiddleware / requireRole
    login,   \* the request in progress at POST /api/login
    hook,    \* the useAuth hook of one mounted component
    tx,      \* the call of executeTransaction in progress
    retry,   \* the call of executeQueryWithRetry in progress
    listing  \* the request in progress at GET /api/users

vars == <<env, loaded, now, ticks, tok, issued, last, req,
          login, hook, tx, retry, listing>>

\* the state of lib/jwt and of the request at its middleware
jwtVars == <<env, loaded, now, ticks, tok, issued, last, req>>

\* the state outside lib/jwt
appVars == <<login, hook, tx, retry, listing>>

(***************************************************************************)
(* Bounds of the model.                                                    *)
(***************************************************************************)
MaxTicks == 3

(***************************************************************************)
(* String primitives of the JavaScript runtime.                            *)
(***************************************************************************)
StartsWith(s, p) == Len(s) >= Len(p) /\ SubSeq(s, 1, Len(p)) = p

Includes(s, sub) ==
    \E i \in 1..(Len(s) - Len(sub) + 1) : SubSeq(s, i, i + Len(sub) - 1) = sub

Substring(s, from) == SubSeq(s, from + 1, Len(s))

\* String.prototype.split for a one-character separator
Split(s, sep) ==
    LET P      == {i \in 1..Len(s) : SubSeq(s, i, i) = sep}
        n      == Cardinality(P)
        pos(k) == CHOOSE i \in P : Cardinality({j \in P : j < i}) = k - 1
        from(k) == IF k = 1 THEN 1 ELSE pos(k - 1) + 1
        to(k)   == IF k = n + 1 THEN Len(s) ELSE pos(k) - 1
    IN  [k \in 1..(n + 1) |-> SubSeq(s, from(k), to(k))]

RECURSIVE Join(_, _)
Join(parts, sep) ==
    IF Len(parts) = 0 THEN ""
    ELSE IF Len(parts) = 1 THEN parts[1]
    ELSE parts[1] \o sep \o Join(Tail(parts), sep)

Digits == <<"0", "1", "2", "3", "4", "5", "6", "7", "8", "9">>

RECURSIVE NumToStr(_)
NumToStr(n) ==
    IF n < 10 THEN Digits[n + 1]
    ELSE NumToStr(n \div 10) \o Digits[(n % 10) + 1]

Undefined == -1
NotANumber == -2

IsDigit(c) == \E d \in 1..10 : Digits[d] = c

DigitVal(c) == (CHOOSE d \in 1..10 : Digits[d] = c) - 1

RECURSIVE StrToNumAcc(_, _, _)
StrToNumAcc(s, i, acc) ==
    IF i > Len(s) THEN acc
    ELSE IF IsDigit(SubSeq(s, i, i))
         THEN StrToNumAcc(s, i + 1, acc * 10 + DigitVal(SubSeq(s, i, i)))
         ELSE NotANumber

\* a numeric JSON field: absent, a number, or a value that is not a number
StrToNum(s) == IF s = "" THEN Undefined ELSE StrToNumAcc(s, 1, 0)

(***************************************************************************)
(* Token wire format (jsonwebtoken: header.payload.signature).             *)
(***************************************************************************)
HS_ALGS == {"HS256", "HS384", "HS512"}

KnownAlgs == HS_ALGS \cup {"none", "RS256"}

EncodePayload(c) ==
    Join(<<c.userId, c.email, c.role, c.type,
           IF c.iat = Undefined THEN "" ELSE NumToStr(c.iat),
           IF c.exp = Undefined THEN "" ELSE NumToStr(c.exp),
           IF c.nbf = Undefined THEN "" ELSE NumToStr(c.nbf),
           c.aud, c.iss>>, ",")

DecodePayload(seg) ==
    LET f == Split(seg, ",")
    IN  [userId |-> f[1], email |-> f[2], role |-> f[3], type |-> f[4],
         iat |-> StrToNum(f[5]), exp |-> StrToNum(f[6]), nbf |-> StrToNum(f[7]),
         aud |-> f[8], iss |-> f[9]]

PayloadDecodable(seg) == Len(Split(seg, ",")) = 9

\* the MAC of the signing input under a key; "none" signs with nothing
Mac(alg, key, input) ==
    IF alg = "none" THEN ""
    ELSE alg \o "/" \o key \o "/" \o Join(Split(input, "."), "/")

EncodeToken(alg, c, key) ==
    LET input == alg \o "." \o EncodePayload(c)
    IN  input \o "." \o Mac(alg, key, input)

(***************************************************************************)
(* jsonwebtoken: sign and verify, as called by lib/jwt.                    *)
(***************************************************************************)
NoError == [name |-> "", message |-> ""]

JwtError(n, m) == [name |-> n, message |-> m]

NoClaims == <<>>

\* jwt.sign(payload, secret, {expiresIn, algorithm, issuer, audience}) at time t
jwt_sign(payload, secret, opts, t) ==
    EncodeToken(opts.algorithm,
                [userId |-> payload.userId, email |-> payload.email,
                 role |-> payload.role, type |-> payload.type,
                 iat |-> t, exp |-> t + opts.expiresIn, nbf |-> Undefined,
                 aud |-> opts.audience, iss |-> opts.issuer],
                secret)

\* jwt.verify(token, secret, {algorithms, issuer, audience, ignoreExpiration,
\* clockTolerance}) at time t; algorithms = {} stands for "not specified"
jwt_verify(token, secret, opts, t) ==
    LET parts == Split(token, ".")
        algorithms == IF opts.algorithms = {} THEN HS_ALGS ELSE opts.algorithms
        fail(n, m) == [error |-> JwtError(n, m), decoded |-> NoClaims]
    IN  IF token = "" THEN fail("JsonWebTokenError", "jwt must be provided")
        ELSE IF Len(parts) # 3 THEN fail("JsonWebTokenError", "jwt malformed")
        ELSE IF parts[1] \notin KnownAlgs \/ parts[2] = ""
             THEN fail("JsonWebTokenError", "invalid token")
        ELSE IF ~PayloadDecodable(parts[2])
             THEN fail("SyntaxError", "Unexpected token in JSON")
        ELSE IF parts[3] = ""
             THEN fail("JsonWebTokenError", "jwt signature is required")
        ELSE IF parts[1] \notin algorithms
             THEN fail("JsonWebTokenError", "invalid algorithm")
        ELSE IF parts[3] # Mac(parts[1], secret, parts[1] \o "." \o parts[2])
             THEN fail("JsonWebTokenError", "invalid signature")
        ELSE LET p == DecodePayload(parts[2])
             IN  IF p.nbf = NotANumber
                 THEN fail("JsonWebTokenError", "invalid nbf value")
                 ELSE IF p.nbf # Undefined /\ p.nbf > t + opts.clockTolerance
                 THEN fail("NotBeforeError", "jwt not active")
                 ELSE IF ~opts.ignoreExpiration /\ p.exp = NotANumber
                 THEN fail("JsonWebTokenError", "invalid exp value")
                 ELSE IF /\ ~opts.ignoreExpiration
                         /\ p.exp # Undefined
                         /\ t >= p.exp + opts.clockTolerance
                 THEN fail("TokenExpiredError", "jwt expired")
                 ELSE IF opts.audience # "" /\ p.aud # opts.audience
                 THEN fail("JsonWebTokenError", "jwt audience invalid")
                 ELSE IF opts.issuer # "" /\ p.iss # opts.issuer
                 THEN fail("JsonWebTokenError", "jwt issuer invalid")
                 ELSE [error |-> NoError, decoded |-> <<p>>]

(***************************************************************************)
(* lib/jwt: module-level secrets.                                          *)
(***************************************************************************)
DefaultSecret == "super-secret-key-for-workshop-demo-only"

MinSecretLength == 32

JWT_SECRET(e) == IF e.JWT_SECRET # "" THEN e.JWT_SECRET ELSE DefaultSecret

validateJWTSecret(e) ==
    IF e.JWT_SECRET = ""
    THEN [ok |-> FALSE, secret |-> "",
          error |-> "JWT_SECRET environment variable is required for security"]
    ELSE IF Len(e.JWT_SECRET) < MinSecretLength
    THEN [ok |-> FALSE, secret |-> "",
          error |-> "JWT_SECRET must be at least 32 characters long for security"]
    ELSE [ok |-> TRUE, secret |-> e.JWT_SECRET, error |-> ""]

VALIDATED_JWT_SECRET(e) ==
    IF e.NODE_ENV = "test" THEN JWT_SECRET(e) ELSE validateJWTSecret(e).secret

\* evaluating the module throws when validateJWTSecret throws
ModuleLoads(e) == e.NODE_ENV = "test" \/ validateJWTSecret(e).ok

(***************************************************************************)
(* lib/jwt: token generation.                                              *)
(***************************************************************************)
AccessTTL == 900
LegacyTTL == 86400
RefreshTTL == 604800
ClockTolerance == 30

Issuer == "your-app-name"
Audience == "your-app-users"

SignResult(okv, t, m) == [ok |-> okv, token |-> t, error |-> m]

generateToken(payload, e, t) ==
    SignResult(TRUE,
               jwt_sign([userId |-> payload.userId, email |-> payload.email,
                         role |-> payload.role, type |-> ""],
                        JWT_SECRET(e),
                        [expiresIn |-> LegacyTTL, algorithm |-> "HS256",
                         issuer |-> "", audience |-> ""], t),
               "")

\* generateTokenSecure signing with the lifetime of the legacy token
generateTokenSecure_longLived(payload, e, t) ==
    IF payload.userId = "" \/ payload.email = ""
    THEN SignResult(FALSE, "",
           "Token generation error: Invalid payload: userId and email are required")
    ELSE SignResult(TRUE,
               jwt_sign([userId |-> payload.userId, email |-> payload.email,
                         role |-> payload.role, type |-> ""],
                        VALIDATED_JWT_SECRET(e),
                        [expiresIn |-> LegacyTTL, algorithm |-> "HS256",
                         issuer |-> Issuer, audience |-> Audience], t),
               "")

generateTokenSecure(payload, e, t) ==
    IF payload.userId = "" \/ payload.email = ""
    THEN SignResult(FALSE, "",
           "Token generation error: Invalid payload: userId and email are required")
    ELSE SignResult(TRUE,
               jwt_sign([userId |-> payload.userId, email |-> payload.email,
                         role |-> payload.role, type |-> ""],
                        VALIDATED_JWT_SECRET(e),
                        [expiresIn |-> AccessTTL, algorithm |-> "HS256",
                         issuer |-> Issuer, audience |-> Audience], t),
               "")

\* generateRefreshToken that signs the caller's payload as it was passed
generateRefreshToken_spreadsPayload(payload, e, t) ==
    IF payload.userId = ""
    THEN SignResult(FALSE, "",
           "Refresh token generation error: Invalid payload: userId is required for refresh token")
    ELSE SignResult(TRUE,
               jwt_sign([userId |-> payload.userId, email |-> payload.email,
                         role |-> payload.role, type |-> "refresh"],
                        VALIDATED_JWT_SECRET(e),
                        [expiresIn |-> RefreshTTL, algorithm |-> "HS256",
                         issuer |-> Issuer, audience |-> Audience], t),
               "")

generateRefreshToken(payload, e, t) ==
    IF payload.userId = ""
    THEN SignResult(FALSE, "",
           "Refresh token generation error: Invalid payload: userId is required for refresh token")
    ELSE SignResult(TRUE,
               jwt_sign([userId |-> payload.userId, email |-> "",
                         role |-> "", type |-> "refresh"],
                        VALIDATED_JWT_SECRET(e),
                        [expiresIn |-> RefreshTTL, algorithm |-> "HS256",
                         issuer |-> Issuer, audience |-> Audience], t),
               "")

(***************************************************************************)
(* lib/jwt: token verification.                                            *)
(***************************************************************************)
VerifyResult(okv, c, m) == [ok |-> okv, claims |-> c, error |-> m]

verifyToken(token, e, t) ==
    LET r == jwt_verify(token, JWT_SECRET(e),
                        [algorithms |-> {}, issuer |-> "", audience |-> "",
                         ignoreExpiration |-> FALSE, clockTolerance |-> 0], t)
    IN  IF r.error = NoError
        THEN VerifyResult(TRUE, r.decoded, "")
        ELSE VerifyResult(FALSE, NoClaims, r.error.message)

\* verifyTokenSecure that does not enforce expiry
verifyTokenSecure_ignoresExpiry(token, e, t) ==
    IF token = ""
    THEN VerifyResult(FALSE, NoClaims,
           "Token verification error: Invalid token: token must be a non-empty string")
    ELSE IF Len(token) < 10
    THEN VerifyResult(FALSE, NoClaims,
           "Token verification error: Invalid token: token too short")
    ELSE LET r == jwt_verify(token, VALIDATED_JWT_SECRET(e),
                        [algorithms |-> {"HS256"}, issuer |-> Issuer,
                         audience |-> Audience, ignoreExpiration |-> TRUE,
                         clockTolerance |-> ClockTolerance], t)
         IN  IF r.error # NoError
             THEN IF r.error.name = "TokenExpiredError"
                  THEN VerifyResult(FALSE, NoClaims, "Token has expired")
                  ELSE IF r.error.name = "JsonWebTokenError"
                  THEN VerifyResult(FALSE, NoClaims, "Invalid token format")
                  ELSE IF r.error.name = "NotBeforeError"
                  THEN VerifyResult(FALSE, NoClaims, "Token not active yet")
                  ELSE VerifyResult(FALSE, NoClaims,
                         "Token verification failed: " \o r.error.message)
             ELSE IF r.decoded[1].userId = "" \/ r.decoded[1].email = ""
                  THEN VerifyResult(FALSE, NoClaims,
                         "Invalid token payload: missing required fields")
                  ELSE VerifyResult(TRUE, r.decoded, "")

\* verifyTokenSecure that requires userId only
verifyTokenSecure_emailOptional(token, e, t) ==
    IF token = ""
    THEN VerifyResult(FALSE, NoClaims,
           "Token verification error: Invalid token: token must be a non-empty string")
    ELSE IF Len(token) < 10
    THEN VerifyResult(FALSE, NoClaims,
           "Token verification error: Invalid token: token too short")
    ELSE LET r == jwt_verify(token, VALIDATED_JWT_SECRET(e),
                        [algorithms |-> {"HS256"}, issuer |-> Issuer,
                         audience |-> Audience, ignoreExpiration |-> FALSE,
                         clockTolerance |-> ClockTolerance], t)
         IN  IF r.error # NoError
             THEN IF r.error.name = "TokenExpiredError"
                  THEN VerifyResult(FALSE, NoClaims, "Token has expired")
                  ELSE IF r.error.name = "JsonWebTokenError"
                  THEN VerifyResult(FALSE, NoClaims, "Invalid token format")
                  ELSE IF r.error.name = "NotBeforeError"
                  THEN VerifyResult(FALSE, NoClaims, "Token not active yet")
                  ELSE VerifyResult(FALSE, NoClaims,
                         "Token verification failed: " \o r.error.message)
             ELSE IF r.decoded[1].userId = ""
                  THEN VerifyResult(FALSE, NoClaims,
                         "Invalid token payload: missing required fields")
                  ELSE VerifyResult(TRUE, r.decoded, "")

verifyTokenSecure(token, e, t) ==
    IF token = ""
    THEN VerifyResult(FALSE, NoClaims,
           "Token verification error: Invalid token: token must be a non-empty string")
    ELSE IF Len(token) < 10
    THEN VerifyResult(FALSE, NoClaims,
           "Token verification error: Invalid token: token too short")
    ELSE LET r == jwt_verify(token, VALIDATED_JWT_SECRET(e),
                        [algorithms |-> {"HS256"}, issuer |-> Issuer,
                         audience |-> Audience, ignoreExpiration |-> FALSE,
                         clockTolerance |-> ClockTolerance], t)
         IN  IF r.error # NoError
             THEN IF r.error.name = "TokenExpiredError"
                  THEN VerifyResult(FALSE, NoClaims, "Token has expired")
                  ELSE IF r.error.name = "JsonWebTokenError"
                  THEN VerifyResult(FALSE, NoClaims, "Invalid token format")
                  ELSE IF r.error.name = "NotBeforeError"
                  THEN VerifyResult(FALSE, NoClaims, "Token not active yet")
                  ELSE VerifyResult(FALSE, NoClaims,
                         "Token verification failed: " \o r.error.message)
             ELSE IF r.decoded[1].userId = "" \/ r.decoded[1].email = ""
                  THEN VerifyResult(FALSE, NoClaims,
                         "Invalid token payload: missing required fields")
                  ELSE VerifyResult(TRUE, r.decoded, "")

(***************************************************************************)
(* lib/jwt: authMiddleware and requireRole.                                *)
(***************************************************************************)
JsonHeaders == "Content-Type" :> "application/json"

ChallengeHeaders ==
    ("Content-Type" :> "application/json") @@ ("WWW-Authenticate" :> "Bearer")

\* a 401 built by authMiddleware itself
Unauthorized(err, msg) ==
    [status |-> 401, body |-> [error |-> err, message |-> msg],
     headers |-> ChallengeHeaders, by |-> "authMiddleware"]

\* the 403 built by the handler requireRole wraps around H
Forbidden(roles) ==
    [status |-> 403,
     body |-> [error |-> "Insufficient permissions",
               message |-> "Access denied. Required roles: " \o Join(roles, ", ")],
     headers |-> JsonHeaders, by |-> "requireRole"]

\* the response of the wrapped handler H when it returns normally
HandlerResponse ==
    [status |-> 200, body |-> [data |-> "ok"], headers |-> JsonHeaders, by |-> "H"]

\* authCatch whose expired branch answers without the challenge header
authCatch_noChallenge(m) ==
    IF Includes(m, "expired")
    THEN [status |-> 401,
          body |-> [error |-> "Token expired",
                    message |-> "Please refresh your token and try again"],
          headers |-> JsonHeaders, by |-> "authMiddleware"]
    ELSE IF Includes(m, "Invalid token")
    THEN Unauthorized("Invalid token", "Token verification failed")
    ELSE Unauthorized("Authentication failed", "Unable to authenticate request")

\* authCatch without the branch for expired tokens
authCatch_noExpired(m) ==
    IF Includes(m, "Invalid token")
    THEN Unauthorized("Invalid token", "Token verification failed")
    ELSE Unauthorized("Authentication failed", "Unable to authenticate request")

\* the catch block of authMiddleware, for a caught Error with message m
authCatch(m) ==
    IF Includes(m, "expired")
    THEN Unauthorized("Token expired", "Please refresh your token and try again")
    ELSE IF Includes(m, "Invalid token")
    THEN Unauthorized("Invalid token", "Token verification failed")
    ELSE Unauthorized("Authentication failed", "Unable to authenticate request")

NoHeader == [present |-> FALSE, value |-> ""]

NoGate == [on |-> FALSE, roles |-> <<>>]

IdleReq ==
    [pc |-> "idle", header |-> NoHeader, gate |-> NoGate, token |-> "",
     user |-> NoClaims, verifyCalls |-> 0, gateCalls |-> 0, hCalls |-> 0,
     hThrew |-> "", caught |-> "", response |-> <<>>, rejected |-> FALSE]

Finish(r, resp) == [r EXCEPT !.pc = "done", !.response = <<resp>>]

\* authExtract without the scheme check and without the length check
authExtract_unchecked(r) ==
    IF ~r.header.present \/ r.header.value = ""
    THEN Finish(r, Unauthorized("Authentication required",
                                "Authorization header is missing"))
    ELSE [r EXCEPT !.token = Substring(r.header.value, 7), !.pc = "verify"]

\* authExtract without the length check on the extracted token
authExtract_anyLength(r) ==
    IF ~r.header.present \/ r.header.value = ""
    THEN Finish(r, Unauthorized("Authentication required",
                                "Authorization header is missing"))
    ELSE IF ~StartsWith(r.header.value, "Bearer ")
    THEN Finish(r, Unauthorized("Invalid authentication format",
                                "Authorization header must start with 'Bearer '"))
    ELSE [r EXCEPT !.token = Substring(r.header.value, 7), !.pc = "verify"]

\* header checks of authMiddleware up to the call of verifyTokenSecure
\* authExtract answering a wrong scheme as if the header were missing
authExtract_sameMessage(r) ==
    IF ~r.header.present \/ r.header.value = ""
       \/ ~StartsWith(r.header.value, "Bearer ")
    THEN Finish(r, Unauthorized("Authentication required",
                                "Authorization header is missing"))
    ELSE LET token == Substring(r.header.value, 7)
         IN  IF token = "" \/ Len(token) < 10
             THEN Finish([r EXCEPT !.token = token],
                         Unauthorized("Invalid token",
                                      "Token is malformed or too short"))
             ELSE [r EXCEPT !.token = token, !.pc = "verify"]

authExtract(r) ==
    IF ~r.header.present \/ r.header.value = ""
    THEN Finish(r, Unauthorized("Authentication required",
                                "Authorization header is missing"))
    ELSE IF ~StartsWith(r.header.value, "Bearer ")
    THEN Finish(r, Unauthorized("Invalid authentication format",
                                "Authorization header must start with 'Bearer '"))
    ELSE LET token == Substring(r.header.value, 7)
         IN  IF token = "" \/ Len(token) < 10
             THEN Finish([r EXCEPT !.token = token],
                         Unauthorized("Invalid token",
                                      "Token is malformed or too short"))
             ELSE [r EXCEPT !.token = token, !.pc = "verify"]

\* authVerify that calls the handler whatever the verification said
authVerify_ignoresFailure(r, e, t) ==
    LET v  == verifyTokenSecure(r.token, e, t)
        r1 == [r EXCEPT !.verifyCalls = @ + 1]
    IN  IF v.ok
        THEN [r1 EXCEPT !.user = v.claims,
                        !.pc = IF r.gate.on THEN "gate" ELSE "H"]
        ELSE [r1 EXCEPT !.pc = "H"]

\* authVerify that keeps a best-effort identity from a token it rejected
authVerify_bestEffort(r, e, t) ==
    LET v  == verifyTokenSecure(r.token, e, t)
        r1 == [r EXCEPT !.verifyCalls = @ + 1]
        parts == Split(r.token, ".")
    IN  IF v.ok
        THEN [r1 EXCEPT !.user = v.claims,
                        !.pc = IF r.gate.on THEN "gate" ELSE "H"]
        ELSE Finish([r1 EXCEPT !.caught = v.error,
                               !.user = IF Len(parts) = 3 /\ PayloadDecodable(parts[2])
                                        THEN <<DecodePayload(parts[2])>>
                                        ELSE NoClaims],
                    authCatch(v.error))

\* authVerify that lets the rejection of verifyTokenSecure reach the caller
authVerify_propagates(r, e, t) ==
    LET v  == verifyTokenSecure(r.token, e, t)
        r1 == [r EXCEPT !.verifyCalls = @ + 1]
    IN  IF v.ok
        THEN [r1 EXCEPT !.user = v.claims,
                        !.pc = IF r.gate.on THEN "gate" ELSE "H"]
        ELSE [r1 EXCEPT !.pc = "done", !.caught = v.error, !.rejected = TRUE]

\* authVerify whose failure message quotes the token it rejected
authVerify_echoesToken(r, e, t) ==
    LET v  == verifyTokenSecure(r.token, e, t)
        r1 == [r EXCEPT !.verifyCalls = @ + 1]
    IN  IF v.ok
        THEN [r1 EXCEPT !.user = v.claims,
                        !.pc = IF r.gate.on THEN "gate" ELSE "H"]
        ELSE Finish([r1 EXCEPT !.caught = v.error],
                    Unauthorized("Invalid token",
                                 "Token verification failed: " \o r.token))

\* await verifyTokenSecure(token); Object.assign(request, { user })
authVerify(r, e, t) ==
    LET v  == verifyTokenSecure(r.token, e, t)
        r1 == [r EXCEPT !.verifyCalls = @ + 1]
    IN  IF v.ok
        THEN [r1 EXCEPT !.user = v.claims,
                        !.pc = IF r.gate.on THEN "gate" ELSE "H"]
        ELSE Finish([r1 EXCEPT !.caught = v.error], authCatch(v.error))

\* roleCheck that lets every authenticated caller through
roleCheck_alwaysDelegates(r) ==
    [r EXCEPT !.gateCalls = @ + 1, !.pc = "H"]

\* roleCheck that verifies the token a second time before checking the role
roleCheck_reverifies(r) ==
    LET r1 == [r EXCEPT !.gateCalls = @ + 1, !.verifyCalls = @ + 1]
    IN  IF r.user[1].role = "" \/ \A i \in 1..Len(r.gate.roles) :
                                      r.gate.roles[i] # r.user[1].role
        THEN Finish(r1, Forbidden(r.gate.roles))
        ELSE [r1 EXCEPT !.pc = "H"]

\* the handler requireRole passes to authMiddleware, up to its call of H
roleCheck(r) ==
    LET r1 == [r EXCEPT !.gateCalls = @ + 1]
    IN  IF r.user[1].role = "" \/ \A i \in 1..Len(r.gate.roles) :
                                      r.gate.roles[i] # r.user[1].role
        THEN Finish(r1, Forbidden(r.gate.roles))
        ELSE [r1 EXCEPT !.pc = "H"]

\* authHandler with the call of the handler outside the try: errors propagate
authHandler_propagates(r, threw) ==
    LET r1 == [r EXCEPT !.hCalls = @ + 1, !.hThrew = threw]
    IN  IF threw = ""
        THEN Finish(r1, HandlerResponse)
        ELSE [r1 EXCEPT !.pc = "done", !.rejected = TRUE]

\* return await handler(authenticatedRequest), inside the try of authMiddleware
\* authHandler that invokes H again after it returned
authHandler_retries(r, threw) ==
    LET r1 == [r EXCEPT !.hCalls = @ + 2, !.hThrew = threw]
    IN  IF threw = ""
        THEN Finish(r1, HandlerResponse)
        ELSE Finish([r1 EXCEPT !.caught = threw], authCatch(threw))

authHandler(r, threw) ==
    LET r1 == [r EXCEPT !.hCalls = @ + 1, !.hThrew = threw]
    IN  IF threw = ""
        THEN Finish(r1, HandlerResponse)
        ELSE Finish([r1 EXCEPT !.caught = threw], authCatch(threw))

(***************************************************************************)
(* Inputs: process environments, payloads, presented tokens, headers.      *)
(***************************************************************************)
StrongSecret == "0123456789abcdef0123456789abcdef"

Envs ==
    { [JWT_SECRET |-> "", NODE_ENV |-> "test"],
      [JWT_SECRET |-> "", NODE_ENV |-> "production"],
      [JWT_SECRET |-> "short-secret", NODE_ENV |-> "production"],
      [JWT_SECRET |-> StrongSecret, NODE_ENV |-> "production"] }

ClockSteps == {899, 31, 1}

Payloads ==
    { [userId |-> "42", email |-> "a@x", role |-> "admin"],
      [userId |-> "42", email |-> "a@x", role |-> "user"],
      [userId |-> "42", email |-> "a@x", role |-> ""],
      [userId |-> "42", email |-> "", role |-> "user"],
      [userId |-> "", email |-> "a@x", role |-> "admin"] }

RoleLists == {<<"admin">>, <<"user", "admin">>}

HandlerErrors == {"Handler failed", "Session expired", "Invalid token state"}

Schemes == {"", "Bearer", "Bearer ", "bearer ", "Token ", "Basic "}

BaseClaims ==
    [userId |-> "42", email |-> "a@x", role |-> "admin", type |-> "",
     iat |-> 0, exp |-> AccessTTL, nbf |-> Undefined,
     aud |-> Audience, iss |-> Issuer]

ForeignClaims ==
    { BaseClaims,
      [BaseClaims EXCEPT !.email = ""],
      [BaseClaims EXCEPT !.iss = "other-app"],
      [BaseClaims EXCEPT !.aud = "other-users"],
      [BaseClaims EXCEPT !.exp = Undefined],
      [BaseClaims EXCEPT !.nbf = 5000] }

\* token strings a client can present without having been handed them by this module
ForeignTokens(e) ==
    { "", "abc", "short.tok", "aaaaaaaaaaaa", "valid.jwt.token",
      "HS256.not-json.signature",
      "none." \o EncodePayload(BaseClaims) \o ".signature",
      "HS256.42,a@x,admin,,0,soon,,your-app-users,your-app-name.signature" }
    \cup { EncodeToken(alg, c, JWT_SECRET(e)) :
             alg \in {"HS256", "HS384"}, c \in ForeignClaims }
    \cup { EncodeToken(alg, BaseClaims, "attacker-key") :
             alg \in {"HS256", "HS384", "none", "RS256"} }

(***************************************************************************)
(* Routes that check the bearer token themselves with verifyToken.         *)
(***************************************************************************)
\* GET /api/user/[id]: the authentication check in front of getUserById
userByIdAuthCheck(h, e, t) ==
    IF ~h.present \/ ~StartsWith(h.value, "Bearer ")
    THEN [accepted |-> FALSE, user |-> NoClaims,
          response |-> <<[status |-> 401, body |-> [message |-> "No token provided"]]>>]
    ELSE LET decoded == verifyToken(Substring(h.value, 7), e, t)
         IN  IF decoded.ok
             THEN [accepted |-> TRUE, user |-> decoded.claims, response |-> <<>>]
             ELSE [accepted |-> FALSE, user |-> NoClaims,
                   response |-> <<[status |-> 401,
                                   body |-> [message |-> "Invalid token"]]>>]

\* POST /api/password: the authentication check in front of updatePassword
passwordAuthCheck(h, e, t) ==
    IF ~h.present \/ ~StartsWith(h.value, "Bearer ")
    THEN [accepted |-> FALSE, user |-> NoClaims,
          response |-> <<[status |-> 401, body |-> [message |-> "No token provided"]]>>]
    ELSE LET decoded == verifyToken(Substring(h.value, 7), e, t)
         IN  IF decoded.ok
             THEN [accepted |-> TRUE, user |-> decoded.claims, response |-> <<>>]
             ELSE [accepted |-> FALSE, user |-> NoClaims,
                   response |-> <<[status |-> 401,
                                   body |-> [message |-> "Invalid token"]]>>]

(***************************************************************************)
(* app/api/login: POST.                                                    *)
(***************************************************************************)
\* bcrypt.hash: the digest stored for a password
hashPassword(password) == "bcrypt:" \o password

\* bcrypt.compare; comparePassword returns false instead of throwing
comparePassword(password, hash) == hash = hashPassword(password)

\* the rows of auth joined with users, with the role of user_roles
Accounts ==
    { [email |-> "a@x", password |-> hashPassword("secret1"),
       user_id |-> "42", role |-> "admin"],
      [email |-> "b@x", password |-> hashPassword("hunter22"),
       user_id |-> "7", role |-> ""] }

\* SELECT ... FROM auth a INNER JOIN users u ... WHERE a.email = $1
authRows(email) ==
    IF \E a \in Accounts : a.email = email
    THEN <<CHOOSE a \in Accounts : a.email = email>>
    ELSE <<>>

LoginBodies ==
    [email : {"", "a@x", "b@x", "nobody@x"},
     password : {"", "12345", "secret1", "hunter22"}]

\* NextResponse.json({message}, {status})
MessageResponse(status, message) ==
    [status |-> status, body |-> [message |-> message]]

InvalidCredentials == MessageResponse(401, "Invalid credentials.")

InternalServerError == MessageResponse(500, "Internal server error.")

IdleLogin ==
    [pc |-> "idle", email |-> "", password |-> "", rows |-> <<>>,
     compared |-> FALSE, passwordValid |-> FALSE, dbFailed |-> FALSE,
     signCalls |-> 0, token |-> "", logs |-> <<>>, response |-> <<>>]

LoginFinish(l, resp) == [l EXCEPT !.pc = "done", !.response = <<resp>>]

\* const { email, password } = await request.json(); the two 400 checks
loginValidate(l, body) ==
    LET l1 == [l EXCEPT !.email = body.email, !.password = body.password]
    IN  IF body.email = "" \/ body.password = ""
        THEN LoginFinish(l1, MessageResponse(400, "Email and password are required."))
        ELSE IF Len(body.password) < 6
        THEN LoginFinish(l1, MessageResponse(400,
                                "Password must be at least 6 characters."))
        ELSE [l1 EXCEPT !.pc = "authQuery"]

\* await executeQuery(authQuery, [email]); threw: the query rejected
loginAuthQuery(l, threw) ==
    IF threw
    THEN LoginFinish([l EXCEPT !.dbFailed = TRUE], InternalServerError)
    ELSE LET rows == authRows(l.email)
         IN  IF Len(rows) = 0
             THEN LoginFinish(l, InvalidCredentials)
             ELSE [l EXCEPT !.rows = rows, !.pc = "compare"]

\* loginCompare that goes on whatever the comparison returned
loginCompare_ignoresResult(l) ==
    LET isPasswordValid == comparePassword(l.password, l.rows[1].password)
    IN  [l EXCEPT !.compared = TRUE, !.passwordValid = isPasswordValid,
                  !.pc = "details"]

\* await comparePassword(password, user.password)
loginCompare(l) ==
    LET isPasswordValid == comparePassword(l.password, l.rows[1].password)
        l1 == [l EXCEPT !.compared = TRUE, !.passwordValid = isPasswordValid]
    IN  IF ~isPasswordValid
        THEN LoginFinish(l1, InvalidCredentials)
        ELSE [l1 EXCEPT !.pc = "details"]

\* the payload the login route signs: { userId, role }
loginTokenPayload(l) ==
    [userId |-> l.rows[1].user_id, email |-> "", role |-> l.rows[1].role]

\* await executeQuery(userDetailsQuery, ...); generateToken(tokenPayload)
loginMint(l, threw, e, t) ==
    IF threw
    THEN LoginFinish([l EXCEPT !.dbFailed = TRUE], InternalServerError)
    ELSE [l EXCEPT !.signCalls = @ + 1,
                   !.token = generateToken(loginTokenPayload(l), e, t).token,
                   !.pc = "log"]

LoginSuccessful(l) ==
    [status |-> 200,
     body |-> [message |-> "Login successful!", token |-> l.token,
               user |-> [id |-> l.rows[1].user_id, email |-> l.rows[1].email,
                         role |-> l.rows[1].role]]]

\* await executeQuery("INSERT INTO user_logs ...", [user_id, "login"])
loginLog(l, threw) ==
    IF threw
    THEN LoginFinish([l EXCEPT !.dbFailed = TRUE], InternalServerError)
    ELSE LoginFinish([l EXCEPT !.logs = Append(@, <<l.rows[1].user_id, "login">>)],
                     LoginSuccessful(l))

(***************************************************************************)
(* hooks/useAuth.                                                          *)
(***************************************************************************)
NoUser == <<>>

\* what localStorage holds under "token" when the component mounts
StoredTokens ==
    { "", "abc", "HS256.not-json.signature",
      EncodeToken("HS256", [BaseClaims EXCEPT !.userId = "7"], "any-key") }

\* the token and user of a login response
LoginResults ==
    { [token |-> EncodeToken("HS256", BaseClaims, "any-key"),
       user |-> [id |-> "42", username |-> "ann", email |-> "a@x",
                 fullName |-> "Ann A"]],
      [token |-> "opaque", user |-> [id |-> "7", username |-> "bob",
                                     email |-> "b@x", fullName |-> "Bob B"]] }

RedirectPaths == {"/login", "/users", "/custom"}

NoCallYet ==
    [op |-> "none", redirectTo |-> "", loading |-> TRUE, result |-> TRUE,
     pushed |-> <<>>]

\* pc "idle": not mounted; "effect": rendered, useEffect pending; "ready"
IdleHook ==
    [pc |-> "idle", user |-> NoUser, loading |-> TRUE, storage |-> "",
     mountedWith |-> "", lastAuthCall |-> "none", call |-> NoCallYet]

\* JSON.parse(atob(token.split(".")[1])) does not throw
StoredTokenDecodes(token) ==
    /\ Len(Split(token, ".")) >= 2
    /\ PayloadDecodable(Split(token, ".")[2])

\* checkAuth, run once by useEffect
checkAuth(h) ==
    LET h1 == [h EXCEPT !.loading = FALSE, !.pc = "ready"]
    IN  IF h.storage # ""
        THEN IF StoredTokenDecodes(h.storage)
             THEN LET payload == DecodePayload(Split(h.storage, ".")[2])
                  IN  [h1 EXCEPT !.user = <<[userId |-> payload.userId,
                                             username |-> "", email |-> payload.email,
                                             fullName |-> ""]>>]
             ELSE [h1 EXCEPT !.storage = "", !.user = NoUser]
        ELSE [h1 EXCEPT !.user = NoUser]

\* login(token, userData); stored: localStorage.setItem did not throw
hookLogin(h, token, userData, stored) ==
    [h EXCEPT !.storage = IF stored THEN token ELSE @,
              !.user = <<[userId |-> userData.id, username |-> userData.username,
                          email |-> userData.email,
                          fullName |-> userData.fullName]>>,
              !.lastAuthCall = "login",
              !.call = [op |-> "login", redirectTo |-> "", loading |-> h.loading,
                        result |-> TRUE,
                        pushed |-> <<>>]]

\* hookLogout that removes the token and redirects but keeps the user state
hookLogout_keepsUser(h, removed) ==
    [h EXCEPT !.storage = IF removed THEN "" ELSE @,
              !.lastAuthCall = "logout",
              !.call = [op |-> "logout", redirectTo |-> "", loading |-> h.loading,
                        result |-> TRUE,
                        pushed |-> <<"/login">>]]

\* logout(); removed: localStorage.removeItem did not throw
hookLogout(h, removed) ==
    [h EXCEPT !.storage = IF removed THEN "" ELSE @,
              !.user = NoUser,
              !.lastAuthCall = "logout",
              !.call = [op |-> "logout", redirectTo |-> "", loading |-> h.loading,
                        result |-> TRUE,
                        pushed |-> <<"/login">>]]

requireAuth(h, redirectTo) ==
    IF ~h.loading /\ h.user = NoUser
    THEN [h EXCEPT !.call = [op |-> "requireAuth", redirectTo |-> redirectTo,
                             loading |-> h.loading,
                             result |-> FALSE, pushed |-> <<redirectTo>>]]
    ELSE [h EXCEPT !.call = [op |-> "requireAuth", redirectTo |-> redirectTo,
                             loading |-> h.loading,
                             result |-> TRUE, pushed |-> <<>>]]

requireGuest(h, redirectTo) ==
    IF ~h.loading /\ h.user # NoUser
    THEN [h EXCEPT !.call = [op |-> "requireGuest", redirectTo |-> redirectTo,
                             loading |-> h.loading,
                             result |-> FALSE, pushed |-> <<redirectTo>>]]
    ELSE [h EXCEPT !.call = [op |-> "requireGuest", redirectTo |-> redirectTo,
                             loading |-> h.loading,
                             result |-> TRUE, pushed |-> <<>>]]

(***************************************************************************)
(* lib/database: executeTransaction.                                       *)
(***************************************************************************)
MaxQueries == 3

\* the texts of a list of n queries
QueryList(n) == [i \in 1..n |-> "q" \o NumToStr(i)]

IdleTx ==
    [pc |-> "idle", queries |-> <<>>, callback |-> FALSE, acquired |-> FALSE,
     next |-> 1, sent |-> <<>>, thrown |-> "", releases |-> 0,
     rollbackThrew |-> FALSE, outcome |-> "", error |-> ""]

\* const client = await pool.connect(); threw: connect rejected
txConnect(x, queries, callback, threw) ==
    IF threw
    THEN [x EXCEPT !.queries = queries, !.callback = callback, !.pc = "done",
                   !.outcome = "rejected", !.error = "connect"]
    ELSE [x EXCEPT !.queries = queries, !.callback = callback, !.acquired = TRUE,
                   !.pc = "begin"]

\* await client.query('BEGIN')
txBegin(x, threw) ==
    LET x1 == [x EXCEPT !.sent = Append(@, "BEGIN")]
    IN  IF threw
        THEN [x1 EXCEPT !.thrown = "BEGIN", !.pc = "catch"]
        ELSE [x1 EXCEPT !.pc = IF x.callback THEN "callback"
                               ELSE IF Len(x.queries) = 0 THEN "commit"
                               ELSE "query"]

\* await callback(client)
txCallback(x, threw) ==
    IF threw
    THEN [x EXCEPT !.thrown = "callback", !.pc = "catch"]
    ELSE [x EXCEPT !.pc = "commit"]

\* one turn of the loop: await client.query(text, values)
txQuery(x, threw) ==
    LET text == x.queries[x.next]
        x1 == [x EXCEPT !.sent = Append(@, text)]
    IN  IF threw
        THEN [x1 EXCEPT !.thrown = text, !.pc = "catch"]
        ELSE [x1 EXCEPT !.next = @ + 1,
                        !.pc = IF x.next = Len(x.queries) THEN "commit" ELSE "query"]

\* await client.query('COMMIT')
txCommit(x, threw) ==
    LET x1 == [x EXCEPT !.sent = Append(@, "COMMIT")]
    IN  IF threw
        THEN [x1 EXCEPT !.thrown = "COMMIT", !.pc = "catch"]
        ELSE [x1 EXCEPT !.outcome = "resolved", !.pc = "finally"]

\* catch: await client.query('ROLLBACK'); throw error
txCatch(x, threw) ==
    [x EXCEPT !.sent = Append(@, "ROLLBACK"),
              !.rollbackThrew = threw,
              !.outcome = "rejected",
              !.error = IF threw THEN "ROLLBACK" ELSE x.thrown,
              !.pc = "finally"]

\* txFinally that releases the client only after a commit
txFinally_onlyOnSuccess(x) ==
    [x EXCEPT !.releases = IF x.outcome = "resolved" THEN @ + 1 ELSE @,
              !.pc = "done"]

\* finally: client.release()
txFinally(x) == [x EXCEPT !.releases = @ + 1, !.pc = "done"]

(***************************************************************************)
(* lib/database: executeQuery, executeQueryWithRetry, isRetryableError.    *)
(***************************************************************************)
MaxRetriesBound == 5

\* what pool.query can reject with; the last one is a value that is not an
\* Error
PoolErrors ==
    { [isError |-> TRUE, message |-> "read ECONNRESET", code |-> "ECONNRESET"],
      [isError |-> TRUE, message |-> "connect ECONNREFUSED 127.0.0.1:5432",
       code |-> "ECONNREFUSED"],
      [isError |-> TRUE, message |-> "timeout", code |-> "ETIMEDOUT"],
      [isError |-> TRUE, message |-> "connection terminated unexpectedly",
       code |-> ""],
      [isError |-> TRUE, message |-> "Connection terminated unexpectedly",
       code |-> ""],
      [isError |-> TRUE, message |-> "syntax error at or near SELEC",
       code |-> "42601"],
      [isError |-> FALSE, message |-> "ETIMEDOUT", code |-> ""] }

\* lastError = null
NoLastError == [isError |-> FALSE, message |-> "", code |-> ""]

UnknownError ==
    [isError |-> TRUE, message |-> "Query failed with unknown error", code |-> ""]

\* the catch block of executeQuery: an Error has its message prefixed, and
\* the same value is thrown again
executeQueryError(e) ==
    IF e.isError
    THEN [e EXCEPT !.message = "Database query failed: " \o @]
    ELSE e

retryableErrors ==
    <<"ECONNRESET", "ECONNREFUSED", "ETIMEDOUT",
      "connection terminated unexpectedly">>

isRetryableError(e) ==
    IF ~e.isError THEN FALSE
    ELSE \E i \in 1..Len(retryableErrors) :
            \/ Includes(e.message, retryableErrors[i])
            \/ e.code = retryableErrors[i]

\* Math.min(1000 * Math.pow(2, attempt - 1), 5000)
retryDelay(attempt) ==
    IF 1000 * 2 ^ (attempt - 1) < 5000 THEN 1000 * 2 ^ (attempt - 1) ELSE 5000

IdleRetry ==
    [pc |-> "idle", maxRetries |-> 0, attempt |-> 0, executions |-> 0,
     lastError |-> NoLastError, delays |-> <<>>, outcome |-> "",
     error |-> NoLastError]

\* let lastError = null; attempt = 1; the first test of the loop
retryStart(maxRetries) ==
    [IdleRetry EXCEPT !.maxRetries = maxRetries, !.attempt = 1,
                      !.pc = IF 1 <= maxRetries THEN "attempt" ELSE "throw"]

\* retryAttempt that tries again after any error while attempts remain
retryAttempt_retriesAnyError(r, failed, e) ==
    LET r1 == [r EXCEPT !.executions = @ + 1]
    IN  IF ~failed
        THEN [r1 EXCEPT !.outcome = "returned", !.pc = "done"]
        ELSE LET r2 == [r1 EXCEPT !.lastError = e]
             IN  IF r.attempt < r.maxRetries
                 THEN [r2 EXCEPT !.delays = Append(@, retryDelay(r.attempt)),
                                 !.pc = "sleep"]
                 ELSE [r2 EXCEPT !.pc = "throw"]

\* the body of the loop; failed: executeQuery threw e
retryAttempt(r, failed, e) ==
    LET r1 == [r EXCEPT !.executions = @ + 1]
    IN  IF ~failed
        THEN [r1 EXCEPT !.outcome = "returned", !.pc = "done"]
        ELSE LET r2 == [r1 EXCEPT !.lastError = e]
             IN  IF r.attempt < r.maxRetries /\ isRetryableError(e)
                 THEN [r2 EXCEPT !.delays = Append(@, retryDelay(r.attempt)),
                                 !.pc = "sleep"]
                 ELSE [r2 EXCEPT !.pc = "throw"]

\* the timer fires; continue: attempt++ and the test of the loop
retryWake(r) ==
    [r EXCEPT !.attempt = @ + 1,
              !.pc = IF r.attempt + 1 <= r.maxRetries THEN "attempt" ELSE "throw"]

\* throw lastError || new Error('Query failed with unknown error')
retryThrow(r) ==
    [r EXCEPT !.outcome = "thrown",
              !.error = IF r.lastError = NoLastError THEN UnknownError
                        ELSE r.lastError,
              !.pc = "done"]

(***************************************************************************)
(* app/api/users: GET, the pagination of the listing.                      *)
(***************************************************************************)
\* a JavaScript number: an integer or NaN
Num(n) == [nan |-> FALSE, v |-> n]

NaN == [nan |-> TRUE, v |-> 0]

\* the digits of s from position i on, up to the first other character
RECURSIVE parseIntDigits(_, _, _)
parseIntDigits(s, i, acc) ==
    IF i <= Len(s) /\ IsDigit(SubSeq(s, i, i))
    THEN parseIntDigits(s, i + 1, acc * 10 + DigitVal(SubSeq(s, i, i)))
    ELSE acc

\* parseInt of a decimal string: leading blanks, a sign, then digits; NaN
\* when no digit follows; whatever comes after the digits is ignored
RECURSIVE parseInt(_)
parseInt(s) ==
    IF s = "" THEN NaN
    ELSE IF SubSeq(s, 1, 1) = " " THEN parseInt(SubSeq(s, 2, Len(s)))
    ELSE LET signed == SubSeq(s, 1, 1) \in {"-", "+"}
             first == IF signed THEN 2 ELSE 1
         IN  IF first > Len(s) \/ ~IsDigit(SubSeq(s, first, first)) THEN NaN
             ELSE IF SubSeq(s, 1, 1) = "-" THEN Num(0 - parseIntDigits(s, first, 0))
             ELSE Num(parseIntDigits(s, first, 0))

\* Math.max: NaN when an argument is NaN
MathMax(a, b) == IF a.nan \/ b.nan THEN NaN ELSE IF a.v >= b.v THEN a ELSE b

\* searchParams.get(name) || fallback; p.present is FALSE for null
OrDefault(p, fallback) == IF ~p.present \/ p.value = "" THEN fallback ELSE p.value

NullParam == [present |-> FALSE, value |-> ""]

PageParams ==
    {NullParam} \cup [present : {TRUE},
                       value : {"", "0", "1", "2", "3", "-5", "abc", "1.5",
                                "12abc", " 7"}]

LimitParams ==
    {NullParam} \cup [present : {TRUE},
                       value : {"", "0", "1", "20", "100", "101", "-3", "abc",
                                "2.5"}]

\* rows[0]?.total_count of the count query
TotalCounts ==
    {NullParam} \cup [present : {TRUE}, value : {"0", "1", "20", "41", "250"}]

IdleListing ==
    [pc |-> "idle", pageParam |-> NullParam, limitParam |-> NullParam,
     page |-> NaN, limit |-> NaN, offset |-> NaN, queryParams |-> <<>>,
     total |-> NaN, totalPages |-> NaN, hasNextPage |-> FALSE,
     hasPrevPage |-> FALSE, status |-> 0]

\* page, limit, offset and the parameters of the query
listParse(pageParam, limitParam) ==
    LET page == MathMax(Num(1), parseInt(OrDefault(pageParam, "1")))
        atLeast1 == MathMax(Num(1), parseInt(OrDefault(limitParam, "20")))
        \* Math.min(100, atLeast1): NaN when atLeast1 is NaN
        limit == IF atLeast1.nan THEN NaN
                 ELSE IF atLeast1.v >= 100 THEN Num(100) ELSE atLeast1
        offset == IF page.nan \/ limit.nan THEN NaN
                  ELSE Num((page.v - 1) * limit.v)
    IN  [IdleListing EXCEPT !.pc = "query", !.pageParam = pageParam,
                            !.limitParam = limitParam, !.page = page,
                            !.limit = limit, !.offset = offset,
                            !.queryParams = <<limit, offset>>]

\* totalCount, totalPages and the pagination of the 200 response
listRespond(l, count) ==
    LET total == parseInt(OrDefault(count, "0"))
        totalPages == IF total.nan \/ l.limit.nan THEN NaN
                      ELSE Num((total.v + l.limit.v - 1) \div l.limit.v)
    IN  [l EXCEPT !.pc = "done", !.status = 200, !.total = total,
                  !.totalPages = totalPages,
                  !.hasNextPage = ~l.page.nan /\ ~totalPages.nan
                                  /\ l.page.v < totalPages.v,
                  !.hasPrevPage = ~l.page.nan /\ l.page.v > 1]

(***************************************************************************)
(* State machine.                                                          *)
(***************************************************************************)
NoPayload == [userId |-> "", email |-> "", role |-> ""]

NoCall ==
    [op |-> "none", ok |-> FALSE, payload |-> NoPayload, token |-> "",
     claims |-> NoClaims, error |-> "", at |-> 0]

SignCall(name, p, r, t) ==
    [op |-> name, ok |-> r.ok, payload |-> p, token |-> r.token,
     claims |-> NoClaims, error |-> r.error, at |-> t]

VerifyCall(name, token, r, t) ==
    [op |-> name, ok |-> r.ok, payload |-> NoPayload, token |-> token,
     claims |-> r.claims, error |-> r.error, at |-> t]

NotIssued == [by |-> "", payload |-> NoPayload, at |-> 0]

Quiet == loaded /\ req.pc = "idle" /\ last.op = "none" /\ login.pc = "idle"

Init ==
    /\ env \in Envs
    /\ loaded = ModuleLoads(env)
    /\ now = 0
    /\ ticks = 0
    /\ tok = ""
    /\ issued = NotIssued
    /\ last = NoCall
    /\ req = IdleReq
    /\ login = IdleLogin
    /\ hook = IdleHook
    /\ tx = IdleTx
    /\ retry = IdleRetry
    /\ listing = IdleListing

Tick ==
    /\ Quiet
    /\ ticks < MaxTicks
    /\ \E d \in ClockSteps : now' = now + d
    /\ ticks' = ticks + 1
    /\ UNCHANGED <<env, loaded, tok, issued, last, req, appVars>>

Sign(name, p, r) ==
    /\ last' = SignCall(name, p, r, now)
    /\ tok' = IF r.ok THEN r.token ELSE tok
    /\ issued' = IF r.ok THEN [by |-> name, payload |-> p, at |-> now] ELSE issued
    /\ UNCHANGED <<env, loaded, now, ticks, req, appVars>>

CallGenerateToken ==
    /\ Quiet
    /\ \E p \in Payloads : Sign("generateToken", p, generateToken(p, env, now))

CallGenerateTokenSecure ==
    /\ Quiet
    /\ \E p \in Payloads :
          Sign("generateTokenSecure", p, generateTokenSecure(p, env, now))

CallGenerateRefreshToken ==
    /\ Quiet
    /\ \E p \in Payloads :
          Sign("generateRefreshToken", p, generateRefreshToken(p, env, now))

ObtainForeign ==
    /\ Quiet
    /\ \E t \in ForeignTokens(env) : tok' = t
    /\ issued' = [NotIssued EXCEPT !.by = "foreign"]
    /\ UNCHANGED <<env, loaded, now, ticks, last, req, appVars>>

CallVerifyToken ==
    /\ Quiet
    /\ last' = VerifyCall("verifyToken", tok, verifyToken(tok, env, now), now)
    /\ UNCHANGED <<env, loaded, now, ticks, tok, issued, req, appVars>>

CallVerifyTokenSecure ==
    /\ Quiet
    /\ last' = VerifyCall("verifyTokenSecure", tok,
                          verifyTokenSecure(tok, env, now), now)
    /\ UNCHANGED <<env, loaded, now, ticks, tok, issued, req, appVars>>

\* a request arrives at authMiddleware(H) or at requireRole(roles)(H)
Receive ==
    /\ Quiet
    /\ \E h \in {NoHeader} \cup {[present |-> TRUE, value |-> s \o tok] : s \in Schemes},
          g \in {NoGate} \cup {[on |-> TRUE, roles |-> rl] : rl \in RoleLists} :
          req' = [IdleReq EXCEPT !.pc = "extract", !.header = h, !.gate = g]
    /\ UNCHANGED <<env, loaded, now, ticks, tok, issued, last, appVars>>

Extract ==
    /\ req.pc = "extract"
    /\ req' = authExtract(req)
    /\ UNCHANGED <<env, loaded, now, ticks, tok, issued, last, appVars>>

Verify ==
    /\ req.pc = "verify"
    /\ req' = authVerify(req, env, now)
    /\ UNCHANGED <<env, loaded, now, ticks, tok, issued, last, appVars>>

RoleGate ==
    /\ req.pc = "gate"
    /\ req' = roleCheck(req)
    /\ UNCHANGED <<env, loaded, now, ticks, tok, issued, last, appVars>>

Handler ==
    /\ req.pc = "H"
    /\ \E threw \in {""} \cup HandlerErrors : req' = authHandler(req, threw)
    /\ UNCHANGED <<env, loaded, now, ticks, tok, issued, last, appVars>>

\* the caller has taken the result of the call or the response of the request
Return ==
    /\ loaded
    /\ req.pc = "done" \/ last.op # "none"
    /\ last' = NoCall
    /\ req' = IdleReq
    /\ UNCHANGED <<env, loaded, now, ticks, tok, issued, appVars>>

Next ==
    \/ Tick
    \/ CallGenerateToken
    \/ CallGenerateTokenSecure
    \/ CallGenerateRefreshToken
    \/ ObtainForeign
    \/ CallVerifyToken
    \/ CallVerifyTokenSecure
    \/ Receive
    \/ Extract
    \/ Verify
    \/ RoleGate
    \/ Handler
    \/ Return

Spec == Init /\ [][Next]_vars

(***************************************************************************)
(* The login route followed by requests at the middleware.                 *)
(***************************************************************************)
LoginReceive ==
    /\ Quiet
    /\ \E body \in LoginBodies : login' = loginValidate(IdleLogin, body)
    /\ UNCHANGED <<jwtVars, hook, tx, retry, listing>>

LoginAuthQuery ==
    /\ login.pc = "authQuery"
    /\ \E threw \in BOOLEAN : login' = loginAuthQuery(login, threw)
    /\ UNCHANGED <<jwtVars, hook, tx, retry, listing>>

LoginCompare ==
    /\ login.pc = "compare"
    /\ login' = loginCompare(login)
    /\ UNCHANGED <<jwtVars, hook, tx, retry, listing>>

LoginMint ==
    /\ login.pc = "details"
    /\ \E threw \in BOOLEAN : login' = loginMint(login, threw, env, now)
    /\ UNCHANGED <<jwtVars, hook, tx, retry, listing>>

\* on success the client keeps the token of the response
LoginLog ==
    /\ login.pc = "log"
    /\ \E threw \in BOOLEAN :
          /\ login' = loginLog(login, threw)
          /\ tok' = IF threw THEN tok ELSE login.token
          /\ issued' = IF threw THEN issued
                       ELSE [by |-> "login", payload |-> loginTokenPayload(login),
                             at |-> now]
    /\ UNCHANGED <<env, loaded, now, ticks, last, req, hook, tx, retry, listing>>

LoginReturn ==
    /\ login.pc = "done"
    /\ login' = IdleLogin
    /\ UNCHANGED <<jwtVars, hook, tx, retry, listing>>

NextLogin ==
    \/ Tick
    \/ LoginReceive
    \/ LoginAuthQuery
    \/ LoginCompare
    \/ LoginMint
    \/ LoginLog
    \/ LoginReturn
    \/ CallGenerateTokenSecure
    \/ Receive
    \/ Extract
    \/ Verify
    \/ RoleGate
    \/ Handler
    \/ Return

SpecLogin == Init /\ [][NextLogin]_vars


(***************************************************************************)
(* One component using useAuth.                                            *)
(***************************************************************************)
\* lib/jwt loaded and idle
JwtAtRest ==
    /\ env = [JWT_SECRET |-> StrongSecret, NODE_ENV |-> "production"]
    /\ loaded = TRUE
    /\ now = 0
    /\ ticks = 0
    /\ tok = ""
    /\ issued = NotIssued
    /\ last = NoCall
    /\ req = IdleReq

\* every part of the application at rest: where the hook, the transaction,
\* the retried query and the listing start from
InitHook ==
    /\ JwtAtRest
    /\ login = IdleLogin
    /\ hook = IdleHook
    /\ tx = IdleTx
    /\ retry = IdleRetry
    /\ listing = IdleListing

\* first render: useState(null), useState(true), with what localStorage holds
HookMount ==
    /\ hook.pc = "idle"
    /\ \E t \in StoredTokens :
          hook' = [IdleHook EXCEPT !.pc = "effect", !.storage = t, !.mountedWith = t]
    /\ UNCHANGED <<jwtVars, login, tx, retry, listing>>

HookEffect ==
    /\ hook.pc = "effect"
    /\ hook' = checkAuth(hook)
    /\ UNCHANGED <<jwtVars, login, tx, retry, listing>>

HookLogin ==
    /\ hook.pc = "ready"
    /\ \E r \in LoginResults, stored \in BOOLEAN :
          hook' = hookLogin(hook, r.token, r.user, stored)
    /\ UNCHANGED <<jwtVars, login, tx, retry, listing>>

HookLogout ==
    /\ hook.pc = "ready"
    /\ \E removed \in BOOLEAN : hook' = hookLogout(hook, removed)
    /\ UNCHANGED <<jwtVars, login, tx, retry, listing>>

HookRequireAuth ==
    /\ hook.pc \in {"effect", "ready"}
    /\ \E path \in RedirectPaths : hook' = requireAuth(hook, path)
    /\ UNCHANGED <<jwtVars, login, tx, retry, listing>>

HookRequireGuest ==
    /\ hook.pc \in {"effect", "ready"}
    /\ \E path \in RedirectPaths : hook' = requireGuest(hook, path)
    /\ UNCHANGED <<jwtVars, login, tx, retry, listing>>

NextHook ==
    \/ HookMount
    \/ HookEffect
    \/ HookLogin
    \/ HookLogout
    \/ HookRequireAuth
    \/ HookRequireGuest

SpecHook == InitHook /\ [][NextHook]_vars

(***************************************************************************)
(* One caller of executeTransaction.                                       *)
(***************************************************************************)
TxConnect ==
    /\ tx.pc = "idle"
    /\ \E n \in 0..MaxQueries, callback \in BOOLEAN, threw \in BOOLEAN :
          tx' = txConnect(IdleTx, QueryList(n), callback, threw)
    /\ UNCHANGED <<jwtVars, login, hook, retry, listing>>

TxBegin ==
    /\ tx.pc = "begin"
    /\ \E threw \in BOOLEAN : tx' = txBegin(tx, threw)
    /\ UNCHANGED <<jwtVars, login, hook, retry, listing>>

TxCallback ==
    /\ tx.pc = "callback"
    /\ \E threw \in BOOLEAN : tx' = txCallback(tx, threw)
    /\ UNCHANGED <<jwtVars, login, hook, retry, listing>>

TxQuery ==
    /\ tx.pc = "query"
    /\ \E threw \in BOOLEAN : tx' = txQuery(tx, threw)
    /\ UNCHANGED <<jwtVars, login, hook, retry, listing>>

TxCommit ==
    /\ tx.pc = "commit"
    /\ \E threw \in BOOLEAN : tx' = txCommit(tx, threw)
    /\ UNCHANGED <<jwtVars, login, hook, retry, listing>>

TxCatch ==
    /\ tx.pc = "catch"
    /\ \E threw \in BOOLEAN : tx' = txCatch(tx, threw)
    /\ UNCHANGED <<jwtVars, login, hook, retry, listing>>

TxFinally ==
    /\ tx.pc = "finally"
    /\ tx' = txFinally(tx)
    /\ UNCHANGED <<jwtVars, login, hook, retry, listing>>

TxReturn ==
    /\ tx.pc = "done"
    /\ tx' = IdleTx
    /\ UNCHANGED <<jwtVars, login, hook, retry, listing>>

NextTx ==
    \/ TxConnect
    \/ TxBegin
    \/ TxCallback
    \/ TxQuery
    \/ TxCommit
    \/ TxCatch
    \/ TxFinally
    \/ TxReturn

SpecTx == InitHook /\ [][NextTx]_vars

(***************************************************************************)
(* One caller of executeQueryWithRetry.                                    *)
(***************************************************************************)
RetryStart ==
    /\ retry.pc = "idle"
    /\ \E maxRetries \in 0..MaxRetriesBound : retry' = retryStart(maxRetries)
    /\ UNCHANGED <<jwtVars, login, hook, tx, listing>>

RetryAttempt ==
    /\ retry.pc = "attempt"
    /\ \/ retry' = retryAttempt(retry, FALSE, NoLastError)
       \/ \E e \in PoolErrors : retry' = retryAttempt(retry, TRUE, executeQueryError(e))
    /\ UNCHANGED <<jwtVars, login, hook, tx, listing>>

RetryWake ==
    /\ retry.pc = "sleep"
    /\ retry' = retryWake(retry)
    /\ UNCHANGED <<jwtVars, login, hook, tx, listing>>

RetryThrow ==
    /\ retry.pc = "throw"
    /\ retry' = retryThrow(retry)
    /\ UNCHANGED <<jwtVars, login, hook, tx, listing>>

RetryReturn ==
    /\ retry.pc = "done"
    /\ retry' = IdleRetry
    /\ UNCHANGED <<jwtVars, login, hook, tx, listing>>

NextRetry ==
    \/ RetryStart
    \/ RetryAttempt
    \/ RetryWake
    \/ RetryThrow
    \/ RetryReturn

SpecRetry == InitHook /\ [][NextRetry]_vars

(***************************************************************************)
(* One request to the users listing.                                       *)
(***************************************************************************)
ListReceive ==
    /\ listing.pc = "idle"
    /\ \E p \in PageParams, l \in LimitParams : listing' = listParse(p, l)
    /\ UNCHANGED <<jwtVars, login, hook, tx, retry>>

\* the listing query: it throws, or its rows come back
ListQuery ==
    /\ listing.pc = "query"
    /\ \/ listing' = [listing EXCEPT !.pc = "done", !.status = 500]
       \/ listing' = [listing EXCEPT !.pc = "count"]
    /\ UNCHANGED <<jwtVars, login, hook, tx, retry>>

\* the count query: it throws, or the response is built
ListCount ==
    /\ listing.pc = "count"
    /\ \/ listing' = [listing EXCEPT !.pc = "done", !.status = 500]
       \/ \E count \in TotalCounts : listing' = listRespond(listing, count)
    /\ UNCHANGED <<jwtVars, login, hook, tx, retry>>

ListReturn ==
    /\ listing.pc = "done"
    /\ listing' = IdleListing
    /\ UNCHANGED <<jwtVars, login, hook, tx, retry>>

NextList ==
    \/ ListReceive
    \/ ListQuery
    \/ ListCount
    \/ ListReturn

SpecList == InitHook /\ [][NextList]_vars

(***************************************************************************)
(* Properties.                                                             *)
(***************************************************************************)
Started == req.pc \notin {"idle", "extract"}

HeaderIsBearer ==
    req.header.present /\ StartsWith(req.header.value, "Bearer ")

PresentedToken == Substring(req.header.value, 7)

\* the handler given to authMiddleware (H, or the wrapper of requireRole) ran
Delegated == req.gateCalls + req.hCalls > 0

Responded == req.pc = "done" /\ Len(req.response) = 1

Is401Shape(resp) ==
    /\ resp.status = 401
    /\ DOMAIN resp.body = {"error", "message"}
    /\ "WWW-Authenticate" \in DOMAIN resp.headers
    /\ resp.headers["WWW-Authenticate"] = "Bearer"

\* C1: the handler given to authMiddleware is invoked only for a request whose
\* Authorization header is present, starts with "Bearer ", carries a token of
\* at least 10 characters that verifyTokenSecure accepted; every other request
\* ends at the interceptor with the interceptor's own response.
C1_HandlerOnlyWhenVerified ==
    /\ (Delegated \/ req.pc \in {"gate", "H"}) =>
          /\ HeaderIsBearer
          /\ Len(PresentedToken) >= 10
          /\ req.token = PresentedToken
          /\ req.verifyCalls = 1
          /\ Len(req.user) = 1
          /\ verifyTokenSecure(PresentedToken, env, now).ok
    /\ (req.pc = "done" /\ Len(req.user) = 0) =>
          /\ ~Delegated
          /\ Len(req.response) = 1
          /\ req.response[1].by = "authMiddleware"

C1_Witness ==
    /\ req.pc = "done"
    /\ ~req.gate.on
    /\ req.hCalls = 1
    /\ req.hThrew = ""
    /\ req.response = <<HandlerResponse>>

\* C2: a request whose Authorization header is missing, empty, of another
\* scheme, of the wrong case or exactly "Bearer" is answered 401 and token
\* verification is never called for it; verification is reached only by a
\* header that starts with "Bearer ".
C2_SchemeEnforcement ==
    /\ (Started /\ ~HeaderIsBearer) =>
          /\ req.pc = "done"
          /\ req.verifyCalls = 0
          /\ ~Delegated
          /\ Len(req.response) = 1
          /\ req.response[1].status = 401
    /\ (req.pc = "verify" \/ req.verifyCalls > 0) => HeaderIsBearer

C2_Witness ==
    /\ req.pc = "done"
    /\ req.header.present
    /\ StartsWith(req.header.value, "bearer ")
    /\ Len(req.header.value) > 17
    /\ req.verifyCalls = 0
    /\ req.response[1].status = 401

C5_HandlerErrorPropagates ==
    (req.pc = "done" /\ req.hThrew # "") =>
        /\ req.rejected
        /\ Len(req.response) = 0

\* C5, amended: H is called inside the try of authMiddleware, so an error
\* thrown by H is caught and answered with a 401 in the uniform shape
\* ("Token expired" when its message contains "expired", "Invalid token" when
\* it contains "Invalid token", "Authentication failed" otherwise) and never
\* reaches the caller of the interceptor.
C5_HandlerErrorCaught ==
    (req.pc = "done" /\ req.hThrew # "") =>
        /\ ~req.rejected
        /\ req.hCalls = 1
        /\ req.caught = req.hThrew
        /\ Len(req.response) = 1
        /\ Is401Shape(req.response[1])
        /\ req.response[1].body.error =
             IF Includes(req.hThrew, "expired") THEN "Token expired"
             ELSE IF Includes(req.hThrew, "Invalid token") THEN "Invalid token"
             ELSE "Authentication failed"

C5_Witness ==
    /\ req.pc = "done"
    /\ req.hCalls = 1
    /\ req.hThrew = "Handler failed"
    /\ req.response[1].status = 401
    /\ req.response[1].body.error = "Authentication failed"

RoleAccepted(role, roles) ==
    role # "" /\ \E i \in 1..Len(roles) : roles[i] = role

\* C6: for a request through requireRole(roles)(H) whose token verifies, the
\* answer is 403 and H is not invoked when the claims' role is absent or not
\* in roles; otherwise H is invoked once with the request carrying the
\* verified claims and the response H returns is the response.
C6_RoleGating ==
    (req.gate.on /\ req.gateCalls > 0) =>
        /\ req.user = verifyTokenSecure(req.token, env, now).claims
        /\ IF ~RoleAccepted(req.user[1].role, req.gate.roles)
           THEN /\ req.pc = "done"
                /\ req.hCalls = 0
                /\ Len(req.response) = 1
                /\ req.response[1].status = 403
           ELSE \/ req.pc = "H" /\ req.hCalls = 0
                \/ /\ req.pc = "done"
                   /\ req.hCalls = 1
                   /\ req.hThrew = "" => req.response = <<HandlerResponse>>

C6_Witness ==
    /\ req.pc = "done"
    /\ req.gate.roles = <<"admin">>
    /\ req.gateCalls = 1
    /\ req.user[1].role = "user"
    /\ req.hCalls = 0
    /\ req.response[1].status = 403

\* C7: a request through requireRole has its token verified exactly once,
\* the role check runs only after that verification succeeded, and a request
\* that fails authentication is answered 401, never 403.
C7_VerifyOnceThenRole ==
    req.gate.on =>
        /\ req.verifyCalls <= 1
        /\ req.gateCalls <= 1
        /\ req.pc \in {"gate", "H"} => req.verifyCalls = 1
        /\ req.gateCalls > 0 =>
              /\ req.verifyCalls = 1
              /\ Len(req.user) = 1
              /\ verifyTokenSecure(req.token, env, now).ok
        /\ (req.pc = "done" /\ Len(req.user) = 0) =>
              /\ req.gateCalls = 0
              /\ Len(req.response) = 1
              /\ req.response[1].status = 401

C7_Witness ==
    /\ req.gate.on
    /\ req.pc = "done"
    /\ req.verifyCalls = 1
    /\ req.gateCalls = 1
    /\ req.hCalls = 1
    /\ req.response = <<HandlerResponse>>

\* C8: a token produced by generateTokenSecure and verified before its expiry
\* by verifyTokenSecure yields claims with the subject id and role that were
\* signed, and expires_at - issued_at = 900.
C8_RoundTrip ==
    (/\ last.op = "verifyTokenSecure"
     /\ issued.by = "generateTokenSecure"
     /\ last.at < issued.at + 900) =>
        /\ last.ok
        /\ Len(last.claims) = 1
        /\ last.claims[1].userId = issued.payload.userId
        /\ last.claims[1].role = issued.payload.role
        /\ last.claims[1].exp - last.claims[1].iat = 900

C8_Witness ==
    /\ last.op = "verifyTokenSecure"
    /\ issued.by = "generateTokenSecure"
    /\ issued.payload.role = "admin"
    /\ last.at = issued.at + 899
    /\ last.ok
    /\ last.claims[1].role = "admin"

TokenExp(t) == DecodePayload(Split(t, ".")[2]).exp

\* C9: a token signed by generateTokenSecure is rejected as expired when
\* verified at expires_at + 30 + 1 and accepted when verified at
\* expires_at - 1.
C9_ExpiryBoundary ==
    (last.op = "verifyTokenSecure" /\ issued.by = "generateTokenSecure") =>
        /\ last.at = TokenExp(last.token) + 30 + 1 =>
              ~last.ok /\ last.error = "Token has expired"
        /\ last.at = TokenExp(last.token) - 1 => last.ok

C9_Witness ==
    /\ last.op = "verifyTokenSecure"
    /\ issued.by = "generateTokenSecure"
    /\ last.at = TokenExp(last.token) + 31
    /\ last.error = "Token has expired"

TokenAlg(t) == Split(t, ".")[1]

\* C10: a token whose header declares an algorithm other than HS256 never
\* yields claims, on any path that verifies a token (verifyToken,
\* verifyTokenSecure, authMiddleware).
C10_AlgorithmPinning ==
    /\ (last.op \in {"verifyToken", "verifyTokenSecure"} /\ last.ok) =>
          TokenAlg(last.token) = "HS256"
    /\ Len(req.user) = 1 => TokenAlg(req.token) = "HS256"

\* the three responses the catch block of authMiddleware can build
CatchResponses ==
    { Unauthorized("Token expired", "Please refresh your token and try again"),
      Unauthorized("Invalid token", "Token verification failed"),
      Unauthorized("Authentication failed", "Unable to authenticate request") }

\* C11: when verification of the presented token fails at any check, no
\* identity is attached to the request, the handler is not invoked, the
\* response is one of the fixed failure responses, and a failed direct call
\* of verifyTokenSecure yields no claims.
C11_NoPartialTrust ==
    /\ (req.pc = "done" /\ ~verifyTokenSecure(req.token, env, now).ok) =>
          /\ req.user = NoClaims
          /\ ~Delegated
          /\ Len(req.response) = 1
          /\ req.response[1].status = 401
          /\ req.verifyCalls > 0 => req.response[1] \in CatchResponses
    /\ (last.op = "verifyTokenSecure" /\ ~last.ok) => last.claims = NoClaims

C11_Witness ==
    /\ req.pc = "done"
    /\ req.verifyCalls = 1
    /\ req.caught = "Invalid token payload: missing required fields"
    /\ req.user = NoClaims
    /\ req.hCalls = 0

MintOps == {"generateToken", "generateTokenSecure", "generateRefreshToken"}

TokenClaims(t) == DecodePayload(Split(t, ".")[2])

\* seconds between issued_at and expires_at of a minted token
Lifetime(t) == TokenClaims(t).exp - TokenClaims(t).iat

\* C12: every token-minting operation (generateToken, generateTokenSecure,
\* generateRefreshToken) called with a payload whose userId is missing or
\* empty fails with an error and produces no token.
C12_MintRejectsMissingSubject ==
    (last.op \in MintOps /\ last.payload.userId = "") =>
        /\ ~last.ok
        /\ last.token = ""
        /\ last.error # ""

\* C13: the lifetime of a refresh token is at least ten times the lifetime
\* of every token minted for authorizing requests (generateTokenSecure and
\* the login flow's generateToken), and every minted token expires strictly
\* after it was issued.
C13_LifetimeSeparation ==
    (last.op \in MintOps /\ last.ok) =>
        /\ TokenClaims(last.token).exp > TokenClaims(last.token).iat
        /\ last.op \in {"generateToken", "generateTokenSecure"} =>
              \A p \in Payloads :
                 generateRefreshToken(p, env, now).ok =>
                    Lifetime(generateRefreshToken(p, env, now).token)
                       >= 10 * Lifetime(last.token)

\* C14: whatever fields the caller passes to generateRefreshToken, the
\* minted refresh token carries the caller's userId and the type tag
\* "refresh", and neither role nor email.
C14_RefreshPayloadMinimal ==
    (last.op = "generateRefreshToken" /\ last.ok) =>
        /\ TokenClaims(last.token).userId = last.payload.userId
        /\ TokenClaims(last.token).type = "refresh"
        /\ TokenClaims(last.token).role = ""
        /\ TokenClaims(last.token).email = ""

C14_Witness ==
    /\ last.op = "generateRefreshToken"
    /\ last.ok
    /\ last.payload.role = "admin"
    /\ last.payload.email = "a@x"
    /\ TokenClaims(last.token).type = "refresh"

\* the secret each exported operation hands to jsonwebtoken
SecretUsed(op, e) ==
    IF op \in {"generateToken", "verifyToken"}
    THEN JWT_SECRET(e)
    ELSE VALIDATED_JWT_SECRET(e)

\* C15: when the configured secret is missing or shorter than 32
\* characters the module fails to start, and no sign or verify operation
\* ever runs with the built-in default secret.
C15_SecretValidatedAtStartup ==
    /\ (env.JWT_SECRET = "" \/ Len(env.JWT_SECRET) < MinSecretLength) => ~loaded
    /\ last.op # "none" => SecretUsed(last.op, env) # DefaultSecret
    /\ req.verifyCalls > 0 => SecretUsed("verifyTokenSecure", env) # DefaultSecret

\* the check at which a request with header h fails at time t, by the checks
\* of authMiddleware and the error jsonwebtoken reports for the token
FailureKind(h, e, t) ==
    IF ~h.present \/ h.value = "" THEN "no header"
    ELSE IF ~StartsWith(h.value, "Bearer ") THEN "wrong scheme"
    ELSE LET token == Substring(h.value, 7)
             raw == jwt_verify(token, VALIDATED_JWT_SECRET(e),
                        [algorithms |-> {"HS256"}, issuer |-> Issuer,
                         audience |-> Audience, ignoreExpiration |-> FALSE,
                         clockTolerance |-> ClockTolerance], t)
         IN  IF Len(token) < 10 THEN "too short"
             ELSE IF raw.error.message \in {"jwt malformed", "invalid token"}
             THEN "malformed"
             ELSE IF raw.error.name = "SyntaxError" THEN "undecodable"
             ELSE IF raw.error.message \in {"jwt signature is required",
                                            "invalid algorithm", "invalid signature"}
             THEN "signature"
             ELSE IF raw.error.name = "TokenExpiredError" THEN "expired"
             ELSE IF raw.error.name = "NotBeforeError" THEN "not active"
             ELSE IF raw.error.message \in {"jwt audience invalid", "jwt issuer invalid"}
             THEN "issuer or audience"
             ELSE IF raw.error.message \in {"invalid exp value", "invalid nbf value"}
             THEN "payload"
             ELSE IF raw.error = NoError
                     /\ (raw.decoded[1].userId = "" \/ raw.decoded[1].email = "")
             THEN "payload"
             ELSE "none"

\* the five kinds of the error taxonomy; a missing header and a wrong scheme
\* are one kind
TaxonomyKind(k) ==
    IF k \in {"no header", "wrong scheme"} THEN "Unauthenticated"
    ELSE IF k \in {"too short", "malformed"} THEN "Malformed"
    ELSE IF k = "signature" THEN "InvalidSignature"
    ELSE IF k = "payload" THEN "InvalidPayload"
    ELSE IF k = "expired" THEN "Expired"
    ELSE "other"

\* the response of authMiddleware(H) to a request with header h that fails
\* before H
AnswerTo(h, e, t) ==
    LET r1 == authExtract([IdleReq EXCEPT !.pc = "extract", !.header = h])
    IN  IF r1.pc = "verify" THEN authVerify(r1, e, t) ELSE r1

\* the interceptor answered the request itself, before any handler ran
FailedBeforeHandler == Responded /\ ~Delegated /\ req.response[1].by = "authMiddleware"

ErrorValueFor(k) ==
    IF k = "no header" THEN "Authentication required"
    ELSE IF k = "wrong scheme" THEN "Invalid authentication format"
    ELSE IF k = "expired" THEN "Token expired"
    ELSE IF k \in {"too short", "malformed", "signature", "issuer or audience",
                    "payload"}
    THEN "Invalid token"
    ELSE "Authentication failed"

BearerHeader(t) == [present |-> TRUE, value |-> "Bearer " \o t]

\* neither field of the body contains the string s
BodyOmits(resp, s) ==
    s # "" => ~Includes(resp.body.error, s) /\ ~Includes(resp.body.message, s)

ResponseFor(k) ==
    IF k = "no header"
    THEN Unauthorized("Authentication required", "Authorization header is missing")
    ELSE IF k = "wrong scheme"
    THEN Unauthorized("Invalid authentication format",
                      "Authorization header must start with 'Bearer '")
    ELSE IF k = "too short"
    THEN Unauthorized("Invalid token", "Token is malformed or too short")
    ELSE IF k = "expired"
    THEN Unauthorized("Token expired", "Please refresh your token and try again")
    ELSE IF k \in {"malformed", "signature", "issuer or audience", "payload"}
    THEN Unauthorized("Invalid token", "Token verification failed")
    ELSE Unauthorized("Authentication failed", "Unable to authenticate request")

HeaderMissing == ~req.header.present \/ req.header.value = ""

VerificationFailed ==
    req.pc = "done" /\ req.verifyCalls > 0 /\ Len(req.user) = 0

C20_SuccessDelegatesOnce ==
    (req.pc \in {"gate", "H", "done"} /\ Len(req.user) = 1) =>
        /\ req.verifyCalls = 1
        /\ verifyTokenSecure(req.token, env, now).ok
        /\ req.user = verifyTokenSecure(req.token, env, now).claims
        /\ req.pc = "done" =>
              /\ IF req.gate.on
                 THEN req.gateCalls = 1 /\ req.hCalls <= 1
                 ELSE req.gateCalls = 0 /\ req.hCalls = 1
              /\ ~req.rejected
              /\ (req.hCalls > 0 /\ req.hThrew = "") =>
                    req.response = <<HandlerResponse>>
              /\ (req.gate.on /\ req.hCalls = 0) =>
                    req.response = <<Forbidden(req.gate.roles)>>

C20_Witness ==
    /\ req.pc = "done"
    /\ ~req.gate.on
    /\ req.verifyCalls = 1
    /\ req.hCalls = 1
    /\ req.hThrew = ""
    /\ Len(req.user) = 1
    /\ req.user[1].userId = "42"
    /\ req.user[1].email = "a@x"
    /\ req.response = <<HandlerResponse>>

\* the login request got past the 400 checks and the account query answered
LoginLookedUp ==
    /\ login.pc = "done"
    /\ login.email # "" /\ Len(login.password) >= 6
    /\ ~(login.dbFailed /\ ~login.compared /\ Len(login.rows) = 0)

NoAccountMatches == authRows(login.email) = <<>>

PasswordRejected ==
    /\ ~NoAccountMatches
    /\ ~comparePassword(login.password, authRows(login.email)[1].password)

\* C21: the login route calls generateToken only after comparePassword
\* returned true; when no account matches the email or the comparison
\* returns false the response is 401 with the body {message: "Invalid
\* credentials."} in both cases, generateToken is not called and no login
\* action is logged.
C21_MintOnlyAfterPassword ==
    /\ login.signCalls > 0 =>
          /\ login.signCalls = 1
          /\ login.compared /\ login.passwordValid
          /\ comparePassword(login.password, login.rows[1].password)
    /\ Len(login.logs) > 0 => login.signCalls = 1 /\ login.passwordValid
    /\ (LoginLookedUp /\ (NoAccountMatches \/ PasswordRejected)) =>
          /\ login.response = <<InvalidCredentials>>
          /\ login.signCalls = 0
          /\ login.token = ""
          /\ login.logs = <<>>

C21_Witness ==
    /\ login.pc = "done"
    /\ login.email = "a@x"
    /\ login.password = "hunter22"
    /\ login.compared
    /\ login.response = <<InvalidCredentials>>
    /\ login.signCalls = 0

\* a user is set, by the calls made so far: the last of login and logout was
\* login, or neither was called and the token found at mount decoded
UserExpected ==
    \/ hook.lastAuthCall = "login"
    \/ hook.lastAuthCall = "none" /\ hook.mountedWith # ""
                                  /\ StoredTokenDecodes(hook.mountedWith)

\* C22: once loading has finished, after any sequence of login and logout
\* calls, requireAuth returns true without redirecting exactly when a user
\* is set (the last call was login, or the stored token decoded and there
\* was no logout since), and otherwise returns false and redirects to the
\* given path; requireGuest returns the opposite result and redirects to
\* its path when a user is set.
C22_RequireAuthGuest ==
    (hook.pc = "ready" /\ ~hook.loading) =>
        /\ (hook.user # NoUser) <=> UserExpected
        /\ (hook.call.op = "requireAuth" /\ ~hook.call.loading) =>
              IF UserExpected
              THEN hook.call.result = TRUE /\ hook.call.pushed = <<>>
              ELSE hook.call.result = FALSE
                   /\ hook.call.pushed = <<hook.call.redirectTo>>
        /\ (hook.call.op = "requireGuest" /\ ~hook.call.loading) =>
              IF UserExpected
              THEN hook.call.result = FALSE
                   /\ hook.call.pushed = <<hook.call.redirectTo>>
              ELSE hook.call.result = TRUE /\ hook.call.pushed = <<>>

C22_Witness ==
    /\ hook.pc = "ready"
    /\ hook.mountedWith # "" /\ StoredTokenDecodes(hook.mountedWith)
    /\ hook.lastAuthCall = "logout"
    /\ hook.call.op = "requireAuth"
    /\ ~hook.call.loading
    /\ hook.call.result = FALSE
    /\ hook.call.pushed = <<"/custom">>

\* C23: every server path that accepts a bearer token and then runs a
\* protected handler (authMiddleware, the user-by-id GET route, the
\* password POST route) accepts the token of a request only if
\* verifyTokenSecure accepts it, so a request accepted by one path is
\* accepted by all.
C23_SingleVerificationContract ==
    (req.pc = "done" /\ req.header.present) =>
        LET hardened == HeaderIsBearer
                        /\ verifyTokenSecure(PresentedToken, env, now).ok
        IN  /\ (Len(req.user) = 1) <=> hardened
            /\ userByIdAuthCheck(req.header, env, now).accepted <=> hardened
            /\ passwordAuthCheck(req.header, env, now).accepted <=> hardened

\* token passes every check of jwt.verify under the hardened options at the
\* time of the call: signature, HS256, issuer, audience, not expired
PassesJwtVerify(token, at) ==
    jwt_verify(token, VALIDATED_JWT_SECRET(env),
               [algorithms |-> {"HS256"}, issuer |-> Issuer, audience |-> Audience,
                ignoreExpiration |-> FALSE, clockTolerance |-> ClockTolerance],
               at).error = NoError

SubjectWithoutEmail(token) ==
    TokenClaims(token).userId # "" /\ TokenClaims(token).email = ""

LoginTokenPresented ==
    /\ req.pc = "done"
    /\ issued.by = "login"
    /\ req.header = BearerHeader(tok)
    /\ now < TokenClaims(tok).exp

\* C25: the token returned by a successful login, presented as
\* "Authorization: Bearer <token>" before it expires to a route wrapped in
\* authMiddleware, passes verification and reaches the wrapped handler with
\* the logged-in user's id as the current identity.
C25_LoginTokenReachesHandler ==
    LoginTokenPresented =>
        /\ req.verifyCalls = 1
        /\ Len(req.user) = 1
        /\ req.user[1].userId = issued.payload.userId
        /\ Delegated
        /\ ~req.gate.on => req.hCalls = 1

\* the presented token is past its expiry and was rejected for that
RejectedAsExpired ==
    /\ req.verifyCalls > 0
    /\ Len(req.user) = 0
    /\ FailureKind(req.header, env, now) = "expired"

\* C26: the interceptor answers with error "Token expired" only when the
\* presented token was rejected because it is past its expiry; neither
\* another verification failure nor an error raised by the wrapped handler
\* after successful verification produces that response.
C26_ExpiredOnlyForExpiry ==
    (Responded /\ req.response[1].by = "authMiddleware"
     /\ req.response[1].body.error = "Token expired") => RejectedAsExpired

\* C27: a token minted by generateRefreshToken is never accepted as an
\* access token: presented as a bearer token to authMiddleware or
\* requireRole it is answered 401 and no handler is invoked, and
\* verifyTokenSecure called on it fails.
C27_RefreshNotAccess ==
    /\ (req.pc = "done" /\ issued.by = "generateRefreshToken"
        /\ req.header = BearerHeader(tok)) =>
          /\ req.user = NoClaims
          /\ req.gateCalls = 0 /\ req.hCalls = 0
          /\ Len(req.response) = 1
          /\ req.response[1].status = 401
    /\ (last.op = "verifyTokenSecure" /\ issued.by = "generateRefreshToken"
        /\ last.token = tok) =>
          ~last.ok /\ last.claims = NoClaims

C27_Witness ==
    /\ req.pc = "done"
    /\ issued.by = "generateRefreshToken"
    /\ issued.payload.email = "a@x"
    /\ req.header = BearerHeader(tok)
    /\ req.gate.on
    /\ now < TokenClaims(tok).exp
    /\ req.caught = "Invalid token payload: missing required fields"
    /\ req.response[1].status = 401

TxSent(s) == \E i \in 1..Len(tx.sent) : tx.sent[i] = s

TxLastSent == tx.sent[Len(tx.sent)]

\* the statements sent before the transaction was ended
TxBodySent ==
    IF tx.callback THEN <<"BEGIN">>
    ELSE <<"BEGIN">> \o SubSeq(tx.queries, 1, Len(tx.queries))

\* C28 (as stated): an acquired client is released exactly once; when BEGIN
\* and every query (or the callback) succeed the transaction ends with
\* COMMIT and no ROLLBACK; when any step throws, ROLLBACK is issued, no
\* later query is executed and that error is rethrown to the caller.
C28_TransactionOutcome ==
    /\ tx.acquired => tx.releases <= 1
    /\ (tx.pc = "done" /\ tx.acquired) =>
          /\ tx.releases = 1
          /\ tx.thrown \in {"", "COMMIT"} =>
                /\ TxLastSent = "COMMIT"
                /\ ~TxSent("ROLLBACK")
          /\ tx.thrown # "" =>
                /\ TxSent("ROLLBACK")
                /\ tx.outcome = "rejected"
                /\ tx.error = tx.thrown

\* C28 (amended): an acquired client is released exactly once on every
\* path; when BEGIN, every query (or the callback) and COMMIT succeed, the
\* statements sent are BEGIN, the queries in order and COMMIT, with no
\* ROLLBACK, and the call resolves; when BEGIN, a query, the callback or
\* COMMIT throws, ROLLBACK is the next and last statement, no later query
\* is executed, and the call rejects with that error if ROLLBACK succeeds
\* and with the error of ROLLBACK if ROLLBACK throws too.
C28_TransactionPaths ==
    /\ tx.acquired => tx.releases <= 1
    /\ tx.pc # "done" => tx.releases = 0
    /\ (tx.pc = "done" /\ tx.acquired) =>
          /\ tx.releases = 1
          /\ IF tx.thrown = ""
             THEN /\ tx.sent = TxBodySent \o <<"COMMIT">>
                  /\ tx.outcome = "resolved"
             ELSE /\ TxLastSent = "ROLLBACK"
                  /\ Len(tx.sent) >= 2
                  /\ tx.sent[Len(tx.sent) - 1] =
                        (IF tx.thrown = "callback" THEN "BEGIN" ELSE tx.thrown)
                  /\ \A i \in 1..(Len(tx.sent) - 2) : tx.sent[i] = TxBodySent[i]
                  /\ tx.thrown \notin {"COMMIT", "callback", "BEGIN"} =>
                        Len(tx.sent) = tx.next + 2
                  /\ tx.outcome = "rejected"
                  /\ tx.error \in {tx.thrown, "ROLLBACK"}
                  /\ tx.error = "ROLLBACK" <=> tx.rollbackThrew

C28_Witness ==
    /\ tx.pc = "done"
    /\ tx.queries = <<"q1", "q2">>
    /\ ~tx.callback
    /\ tx.sent = <<"BEGIN", "q1", "ROLLBACK">>
    /\ tx.error = "q1"
    /\ tx.releases = 1

\* one of the four connection errors, by message or by code
RetryableConnectionError(e) ==
    /\ e.isError
    /\ \E n \in {"ECONNRESET", "ECONNREFUSED", "ETIMEDOUT",
                 "connection terminated unexpectedly"} :
          Includes(e.message, n) \/ e.code = n

\* the steps a call of executeQueryWithRetry can still take are bounded by
\* this number
RetrySteps ==
    CASE retry.pc = "attempt" -> 2 * (retry.maxRetries - retry.attempt) + 3
      [] retry.pc = "sleep" -> 2 * (retry.maxRetries - retry.attempt) + 2
      [] retry.pc = "throw" -> 1
      [] OTHER -> 0

\* C29 (as stated): executeQueryWithRetry ends, after at most maxRetries
\* executions, by returning the first successful result or throwing the
\* last error executeQuery threw.
C29_ReturnsOrThrowsLastError ==
    retry.pc = "done" =>
        /\ retry.executions <= retry.maxRetries
        /\ \/ retry.outcome = "returned"
           \/ /\ retry.outcome = "thrown"
              /\ retry.executions >= 1
              /\ retry.lastError # NoLastError
              /\ retry.error = retry.lastError

\* C29 (amended): a call with maxRetries >= 1 terminates after at most
\* maxRetries executions: every step of the call lowers a bounded count;
\* it waits for another attempt only after an Error that is one of the four
\* connection errors and only while attempt < maxRetries, goes to the throw
\* at the first other error, waits min(1000 * 2^(attempt-1), 5000) ms before
\* attempt + 1, and ends by returning the first successful result or
\* throwing the last error.  A call with maxRetries <= 0 never executes the
\* query and throws "Query failed with unknown error".
C29_BoundedRetry ==
    /\ [](/\ retry.executions <= retry.maxRetries
          /\ retry.delays = [i \in 1..Len(retry.delays) |->
                                IF i = 1 THEN 1000
                                ELSE IF i = 2 THEN 2000
                                ELSE IF i = 3 THEN 4000
                                ELSE 5000]
          /\ retry.pc = "attempt" =>
                /\ retry.executions = retry.attempt - 1
                /\ Len(retry.delays) = retry.executions
                /\ retry.attempt <= retry.maxRetries
          /\ retry.pc = "sleep" =>
                /\ RetryableConnectionError(retry.lastError)
                /\ retry.attempt < retry.maxRetries
                /\ retry.executions = retry.attempt
                /\ Len(retry.delays) = retry.attempt
          /\ (retry.pc = "throw" /\ retry.maxRetries >= 1) =>
                /\ retry.lastError # NoLastError
                /\ retry.executions = retry.attempt
                /\ Len(retry.delays) = retry.executions - 1
                /\ \/ ~RetryableConnectionError(retry.lastError)
                   \/ retry.attempt = retry.maxRetries
          /\ (retry.pc = "done" /\ retry.outcome = "returned") =>
                /\ retry.executions = retry.attempt
                /\ Len(retry.delays) = retry.executions - 1
          /\ (retry.pc = "done" /\ retry.outcome = "thrown") =>
                IF retry.maxRetries >= 1
                THEN /\ retry.executions >= 1
                     /\ retry.error = retry.lastError
                     /\ retry.error # NoLastError
                ELSE /\ retry.executions = 0
                     /\ retry.error.message = "Query failed with unknown error")
    /\ [][retry.pc \in {"attempt", "sleep", "throw"} =>
             /\ RetrySteps >= 0
             /\ RetrySteps' < RetrySteps]_vars

C29_Witness ==
    /\ retry.pc = "done"
    /\ retry.maxRetries = 5
    /\ retry.executions = 5
    /\ retry.delays = <<1000, 2000, 4000, 5000>>
    /\ retry.outcome = "thrown"
    /\ retry.error.code = "ETIMEDOUT"

\* C30: for every value of the page and limit parameters the values passed
\* to the query satisfy page >= 1, 1 <= limit <= 100 and
\* offset = (page - 1) * limit >= 0, and the pagination of the response has
\* hasPrevPage = (page > 1) and hasNextPage = (page < totalPages).
C30_PaginationInRange ==
    /\ listing.pc # "idle" =>
          /\ ~listing.page.nan /\ listing.page.v >= 1
          /\ ~listing.limit.nan /\ listing.limit.v >= 1 /\ listing.limit.v <= 100
          /\ ~listing.offset.nan
          /\ listing.offset.v = (listing.page.v - 1) * listing.limit.v
          /\ listing.offset.v >= 0
          /\ listing.queryParams = <<listing.limit, listing.offset>>
    /\ (listing.pc = "done" /\ listing.status = 200) =>
          /\ ~listing.totalPages.nan
          /\ listing.hasPrevPage = (listing.page.v > 1)
          /\ listing.hasNextPage = (listing.page.v < listing.totalPages.v)

====
